---- MODULE Spec2Model ----
(***************************************************************************)
(* Model of src/src/global-filter.ts: the GlobalInputFilter class (a       *)
(* document-level key and paste filter), its document listener registry,   *)
(* and the string sanitizer shared by filterPastedText and filterInput.    *)
(*                                                                         *)
(* A character is a one-character TLA+ string; a text is a sequence of     *)
(* characters; an array of forbidden characters is a sequence of          *)
(* characters.  The removal pattern is modelled by what new RegExp does    *)
(* with the source text the code builds: escape, join, parse the class,    *)
(* build its ranges, or fail with a SyntaxError.                           *)
(***************************************************************************)
EXTENDS Integers, Sequences, FiniteSets, TLC

(***************************************************************************)
(* Bounds of the model.                                                    *)
(***************************************************************************)
\* longest text handed to filterInput / filterPastedText on its own
MaxLen == 3
\* longest forbidden-character array
MaxChars == 3
\* longest clipboard payload of a paste event
MaxPaste == 2
\* longest value of the element an event targets
MaxValue == 1
\* most init() calls in a row on one instance
MaxInits == 2
\* size of the pool of listener-function identities
MaxHandlers == 4
\* size of the pool of array identities
MaxRefs == 4

(***************************************************************************)
(* Characters.                                                             *)
(***************************************************************************)
\* the characters texts and forbidden arrays are drawn from
Alphabet == {"#", "-", ".", "@"}

\* UTF-16 code unit of a character: what a class range a-b compares
CharCode(c) ==
  CASE c = "#" -> 35 [] c = "$" -> 36 [] c = "(" -> 40 [] c = ")" -> 41
    [] c = "*" -> 42 [] c = "+" -> 43 [] c = "-" -> 45 [] c = "." -> 46
    [] c = "?" -> 63 [] c = "@" -> 64 [] c = "[" -> 91 [] c = "\\" -> 92
    [] c = "]" -> 93 [] c = "^" -> 94 [] c = "a" -> 97 [] c = "{" -> 123
    [] c = "|" -> 124 [] c = "}" -> 125

\* all sequences over S of length at most n
SeqsUpTo(S, n) == UNION {[1..k -> S] : k \in 0..n}

Texts == SeqsUpTo(Alphabet, MaxLen)
CharArrays == SeqsUpTo(Alphabet, MaxChars)

\* the elements of an array
Range(s) == {s[k] : k \in 1..Len(s)}

(***************************************************************************)
(* The removal pattern: `[${chars.map(escape).join("")}]` with flag g.     *)
(***************************************************************************)
\* the class /[.*+?^${}()|[\]\\]/ of the escaping replace
MetaChars == {".", "*", "+", "?", "^", "$", "{", "}", "(", ")", "|", "[", "]", "\\"}

\* char.replace(/[.*+?^${}()|[\]\\]/g, "\\$&") on a one-character string
EscapeChar(char) == IF char \in MetaChars THEN <<"\\", char>> ELSE <<char>>

RECURSIVE Join(_)
\* strings.join("")
Join(strings) ==
  IF strings = <<>> THEN <<>> ELSE Head(strings) \o Join(Tail(strings))

\* the text between the brackets of the pattern source
ClassSource(chars) == Join([k \in 1..Len(chars) |-> EscapeChar(chars[k])])

RECURSIVE ClassAtoms(_)
\* the class atoms of a class body: \x is the character x (identity escape),
\* an unescaped - is the range dash, any other character is itself
ClassAtoms(src) ==
  IF src = <<>> THEN <<>>
  ELSE IF Head(src) = "\\" /\ Len(src) >= 2
       THEN <<[ch |-> src[2], dash |-> FALSE]>> \o ClassAtoms(SubSeq(src, 3, Len(src)))
       ELSE <<[ch |-> Head(src), dash |-> Head(src) = "-"]>> \o ClassAtoms(Tail(src))

RECURSIVE ClassRanges(_)
\* ClassRanges of the regular-expression grammar: "atom - atom" is a range,
\* anything else a single character; the result is a sequence of <<lo, hi>>
ClassRanges(atoms) ==
  IF atoms = <<>> THEN <<>>
  ELSE IF Len(atoms) >= 3 /\ atoms[2].dash
       THEN <<(<<atoms[1].ch, atoms[3].ch>>)>> \o ClassRanges(SubSeq(atoms, 4, Len(atoms)))
       ELSE <<(<<atoms[1].ch, atoms[1].ch>>)>> \o ClassRanges(Tail(atoms))

\* new RegExp(`[...]`, "g"): a range whose ends are out of order is a
\* SyntaxError, otherwise the pattern is the ranges of the class
NewRegExp(chars) ==
  LET ranges == ClassRanges(ClassAtoms(ClassSource(chars)))
  IN  IF \E k \in 1..Len(ranges) : CharCode(ranges[k][1]) > CharCode(ranges[k][2])
      THEN [error |-> TRUE, ranges |-> <<>>]
      ELSE [error |-> FALSE, ranges |-> ranges]

\* whether the compiled class matches the character c
ClassMatches(regex, c) ==
  \E k \in 1..Len(regex.ranges) :
    /\ CharCode(regex.ranges[k][1]) <= CharCode(c)
    /\ CharCode(c) <= CharCode(regex.ranges[k][2])

\* text.replace(regex, "") with a global one-character class
ReplaceAll(text, regex) == SelectSeq(text, LAMBDA c : ~ClassMatches(regex, c))

\* build the pattern from chars and remove its matches from text; a function
\* that throws has no value
RemoveChars(text, chars) ==
  LET regex == NewRegExp(chars)
  IN  IF regex.error
      THEN [threw |-> TRUE, value |-> <<>>]
      ELSE [threw |-> FALSE, value |-> ReplaceAll(text, regex)]

\* filterInput(value, filteredChars): the sanitized value and the alerts shown
filterInput(value, chars) ==
  LET r == RemoveChars(value, chars)
  IN  IF r.threw
      THEN [threw |-> TRUE, value |-> <<>>, alerts |-> <<>>]
      ELSE [threw |-> FALSE, value |-> r.value,
            alerts |-> IF Len(value) # Len(r.value)
                       THEN <<[joined |-> chars, separator |-> " and "]>>
                       ELSE <<>>]

(***************************************************************************)
(* State.                                                                  *)
(***************************************************************************)
VARIABLES
  handle,                \* per instance: what the caller holds of it
  filteredChars,         \* this.filteredChars: a reference to an array
  eventType,             \* this.eventType
  enablePasteFiltering,  \* this.enablePasteFiltering
  eventHandler,          \* this.eventHandler: a listener identity, 0 = null
  pasteHandler,          \* this.pasteHandler: a listener identity, 0 = null
  heap,                  \* the arrays: reference -> contents
  callerArray,           \* the array the caller passed in and still holds, 0 = none
  returned,              \* the array getFilteredChars() last returned, 0 = none
  listeners,             \* the document's event listener list, in order
  inits,                 \* per instance: init() calls since the last destroy()
  lastOp,                \* the operation that produced this state
  event,                 \* the last event dispatched on the document
  target,                \* that event's target element after the dispatch
  log,                   \* the effects of the listeners it ran, in order
  call                   \* the last stand-alone sanitizer call and its result

vars == <<handle, filteredChars, eventType, enablePasteFiltering, eventHandler,
          pasteHandler, heap, callerArray, returned, listeners, inits, lastOp,
          event, target, log, call>>

Instances == {"A", "B"}
\* the characters forbidden arrays and keys of a session are drawn from
SessionChars == {"#", "-", "@"}
\* the characters of a clipboard payload
PasteChars == {"#", "-"}
\* the characters of an element's existing value
ValueChars == {"a"}
SessionArrays == SeqsUpTo(SessionChars, MaxChars)
HandlerIds == 1..MaxHandlers
Refs == 1..MaxRefs

NoEvent == [type |-> "none"]
NoTarget == [matchedBy |-> {}, value |-> <<>>, selectionStart |-> 0,
             selectionEnd |-> 0, setRangeText |-> FALSE]
NoCall == [fn |-> "none"]

\* the smallest member of a non-empty set of numbers
Min(S) == CHOOSE m \in S : \A n \in S : m <= n

\* the arrays still referenced by a filter or by the caller; a new array
\* takes the first reference that no referenced array has
Collect(h, roots) == [r \in (DOMAIN h) \cap roots |-> h[r]]

\* the contents of this.filteredChars
Chars(i) == heap[filteredChars[i]]

\* listener identities in use
UsedHandlers ==
  {listeners[k].id : k \in 1..Len(listeners)}
    \cup {eventHandler[j] : j \in Instances} \cup {pasteHandler[j] : j \in Instances}

\* the document's listeners that instance i's handlers are
ListenersOf(i, kind) ==
  {k \in 1..Len(listeners) : listeners[k].this = i /\ listeners[k].fn = kind}

\* document.addEventListener(type, callback): appended unless the same
\* (type, callback) is already there
addEventListener(ls, type, id, this, fn) ==
  IF \E k \in 1..Len(ls) : ls[k].type = type /\ ls[k].id = id
  THEN ls
  ELSE Append(ls, [type |-> type, id |-> id, this |-> this, fn |-> fn])

\* document.removeEventListener(type, callback)
removeEventListener(ls, type, id) ==
  SelectSeq(ls, LAMBDA l : ~(l.type = type /\ l.id = id))

\* no dispatch is under way: the event loop is free to run the next task
Idle == event.type = "none"

\* the next operation can begin: no dispatch is under way, the caller has let
\* go of the array getFilteredChars() returned, and the record of the last
\* operation has been dropped (that of a setFilteredChars call stays until the
\* next operation, which may be the event it is to take effect on)
Ready ==
  /\ Idle
  /\ returned = 0
  /\ lastOp.op \in {"none", "setFilteredChars"}

\* the event, target and log of a state no event produced
NoDispatch == event' = NoEvent /\ target' = NoTarget /\ log' = <<>>

(***************************************************************************)
(* GlobalInputFilter.                                                      *)
(***************************************************************************)
\* the options a constructor call may carry; an absent option is "undefined"
\* (filteredChars: the empty set)
Options ==
  [filteredChars : {{}} \cup {{a} : a \in SessionArrays},
   eventType : {"undefined", "keypress", "keydown"},
   enablePasteFiltering : {"undefined", "true", "false"}]

\* the fields of a new instance: filteredChars is the array given in the
\* options when one is, else a new ["@", "#"]; held: the array given is one
\* the caller keeps a reference to
Construct(i, options, held) ==
  LET given == options.filteredChars # {}
      arr == IF given THEN CHOOSE a \in options.filteredChars : TRUE ELSE <<"@", "#">>
      kept == {filteredChars[j] : j \in Instances \ {i}}
                \cup (IF held THEN {} ELSE {callerArray})
      ref == Min(Refs \ kept)
      roots == kept \cup {ref}
  IN  /\ Ready
      /\ handle[i] = "none"
      /\ Refs \ kept # {}
      /\ filteredChars' = [filteredChars EXCEPT ![i] = ref]
      /\ callerArray' = IF held THEN ref ELSE callerArray
      /\ returned' = 0
      /\ heap' = Collect([r \in (DOMAIN heap) \cup {ref} |->
                            IF r = ref THEN arr ELSE heap[r]], roots)
      /\ eventType' = [eventType EXCEPT ![i] =
                         IF options.eventType = "undefined" THEN "keypress"
                         ELSE options.eventType]
      /\ enablePasteFiltering' = [enablePasteFiltering EXCEPT ![i] =
                                    options.enablePasteFiltering # "false"]

\* a new instance from the options given; no handler is set
NewFilter(i, options, held) ==
  /\ Construct(i, options, held)
  /\ eventHandler' = [eventHandler EXCEPT ![i] = 0]
  /\ pasteHandler' = [pasteHandler EXCEPT ![i] = 0]
  /\ handle' = [handle EXCEPT ![i] = "filter"]
  /\ lastOp' = [op |-> "constructor", this |-> i]
  /\ NoDispatch
  /\ UNCHANGED <<listeners, inits, call>>

\* new GlobalInputFilter(options), options.filteredChars an array of the
\* caller's
constructor(i, options) == NewFilter(i, options, options.filteredChars # {})

\* destroy() that forgets the paste listener on the document
DestroyFromKeyOnly(i, type, eh, ph, ls) ==
  [eventHandler |-> [eh EXCEPT ![i] = 0],
   pasteHandler |-> [ph EXCEPT ![i] = 0],
   listeners |-> IF eh[i] # 0 THEN removeEventListener(ls, type, eh[i]) ELSE ls,
   threw |-> FALSE]

\* destroy() that forgets to reset this.pasteHandler
DestroyFromKeepRef(i, type, eh, ph, ls) ==
  LET ls1 == IF eh[i] # 0 THEN removeEventListener(ls, type, eh[i]) ELSE ls
      ls2 == IF ph[i] # 0 THEN removeEventListener(ls1, "paste", ph[i]) ELSE ls1
  IN  [eventHandler |-> [eh EXCEPT ![i] = 0], pasteHandler |-> ph, listeners |-> ls2,
       threw |-> FALSE]

\* destroy() that raises when there is no handler to remove
DestroyFromStrict(i, type, eh, ph, ls) ==
  LET ls1 == IF eh[i] # 0 THEN removeEventListener(ls, type, eh[i]) ELSE ls
      ls2 == IF ph[i] # 0 THEN removeEventListener(ls1, "paste", ph[i]) ELSE ls1
  IN  [eventHandler |-> [eh EXCEPT ![i] = 0],
       pasteHandler |-> [ph EXCEPT ![i] = 0],
       listeners |-> ls2,
       threw |-> eh[i] = 0]

\* destroy() that removes the listeners by event type, whoever registered them
DestroyFromByType(i, type, eh, ph, ls) ==
  LET ls1 == IF eh[i] # 0 THEN SelectSeq(ls, LAMBDA l : l.type # type) ELSE ls
      ls2 == IF ph[i] # 0 THEN SelectSeq(ls1, LAMBDA l : l.type # "paste") ELSE ls1
  IN  [eventHandler |-> [eh EXCEPT ![i] = 0],
       pasteHandler |-> [ph EXCEPT ![i] = 0],
       listeners |-> ls2,
       threw |-> FALSE]

\* the state destroy() leaves, from the fields and listener list given;
\* no statement of it can throw
DestroyFrom(i, type, eh, ph, ls) ==
  LET ls1 == IF eh[i] # 0 THEN removeEventListener(ls, type, eh[i]) ELSE ls
      ls2 == IF ph[i] # 0 THEN removeEventListener(ls1, "paste", ph[i]) ELSE ls1
  IN  [eventHandler |-> [eh EXCEPT ![i] = 0],
       pasteHandler |-> [ph EXCEPT ![i] = 0],
       listeners |-> ls2,
       threw |-> FALSE]

\* init() that does not destroy() the handlers already set
InitFromNoDestroy(i, type, paste) ==
  LET used == {listeners[k].id : k \in 1..Len(listeners)}
                \cup {eventHandler[j] : j \in Instances}
                \cup {pasteHandler[j] : j \in Instances}
      eh == Min(HandlerIds \ used)
      ph == Min(HandlerIds \ (used \cup {eh}))
      ls1 == IF paste
             THEN addEventListener(listeners, "paste", ph, i, "pasteHandler")
             ELSE listeners
  IN  [eventHandler |-> [eventHandler EXCEPT ![i] = eh],
       pasteHandler |-> IF paste THEN [pasteHandler EXCEPT ![i] = ph] ELSE pasteHandler,
       listeners |-> addEventListener(ls1, type, eh, i, "eventHandler")]

\* the state init() leaves: destroy() first when a handler is set, then new
\* handler functions, the paste listener added before the key listener
InitFrom(i, type, paste) ==
  LET d == IF eventHandler[i] # 0 \/ pasteHandler[i] # 0
           THEN DestroyFrom(i, type, eventHandler, pasteHandler, listeners)
           ELSE [eventHandler |-> eventHandler, pasteHandler |-> pasteHandler,
                 listeners |-> listeners]
      used == {d.listeners[k].id : k \in 1..Len(d.listeners)}
                \cup {d.eventHandler[j] : j \in Instances}
                \cup {d.pasteHandler[j] : j \in Instances}
      eh == Min(HandlerIds \ used)
      ph == Min(HandlerIds \ (used \cup {eh}))
      ls1 == IF paste
             THEN addEventListener(d.listeners, "paste", ph, i, "pasteHandler")
             ELSE d.listeners
  IN  [eventHandler |-> [d.eventHandler EXCEPT ![i] = eh],
       pasteHandler |-> IF paste
                        THEN [d.pasteHandler EXCEPT ![i] = ph]
                        ELSE d.pasteHandler,
       listeners |-> addEventListener(ls1, type, eh, i, "eventHandler")]

\* enough unused listener identities for one more init()
CanInit == Cardinality(HandlerIds \ UsedHandlers) >= 2

\* the arrays left when the caller lets go of the one getFilteredChars() returned
DropReturned ==
  /\ returned' = 0
  /\ heap' = Collect(heap, {filteredChars[j] : j \in Instances} \cup {callerArray})

\* filter.init()
init(i) ==
  /\ Ready
  /\ handle[i] = "filter"
  /\ inits[i] < MaxInits
  /\ CanInit
  /\ LET s == InitFrom(i, eventType[i], enablePasteFiltering[i])
     IN  /\ eventHandler' = s.eventHandler
         /\ pasteHandler' = s.pasteHandler
         /\ listeners' = s.listeners
  /\ inits' = [inits EXCEPT ![i] = @ + 1]
  /\ lastOp' = [op |-> "init", this |-> i]
  /\ UNCHANGED <<heap, returned>>
  /\ NoDispatch
  /\ UNCHANGED <<handle, filteredChars, eventType, enablePasteFiltering,
                 callerArray, call>>

\* filter.destroy()
destroy(i) ==
  /\ Ready
  /\ handle[i] = "filter"
  /\ LET s == DestroyFrom(i, eventType[i], eventHandler, pasteHandler, listeners)
     IN  /\ eventHandler' = s.eventHandler
         /\ pasteHandler' = s.pasteHandler
         /\ listeners' = s.listeners
  /\ inits' = [inits EXCEPT ![i] = 0]
  /\ lastOp' = [op |-> "destroy", this |-> i, after |-> inits[i],
                threw |-> DestroyFrom(i, eventType[i], eventHandler, pasteHandler,
                                      listeners).threw]
  /\ UNCHANGED <<heap, returned>>
  /\ NoDispatch
  /\ UNCHANGED <<handle, filteredChars, eventType, enablePasteFiltering,
                 callerArray, call>>

\* setFilteredChars that takes effect only while no session is active
setFilteredCharsWhenInactive(i, chars) ==
  LET kept == {filteredChars[j] : j \in Instances \ {i}}
      ref == Min(Refs \ kept)
      store == eventHandler[i] = 0
  IN  /\ Ready
      /\ handle[i] = "filter"
      /\ Refs \ kept # {}
      /\ filteredChars' = IF store THEN [filteredChars EXCEPT ![i] = ref]
                          ELSE filteredChars
      /\ callerArray' = IF store THEN ref ELSE 0
      /\ returned' = 0
      /\ heap' = IF store
                 THEN Collect([r \in (DOMAIN heap) \cup {ref} |->
                                 IF r = ref THEN chars ELSE heap[r]],
                              kept \cup {ref})
                 ELSE Collect(heap, {filteredChars[j] : j \in Instances})
      /\ lastOp' = [op |-> "setFilteredChars", this |-> i, chars |-> chars]
      /\ NoDispatch
      /\ UNCHANGED <<handle, eventType, enablePasteFiltering, eventHandler,
                     pasteHandler, listeners, inits, call>>

\* filter.setFilteredChars(chars), chars a new array of the caller's: the
\* filter keeps the caller's array itself
setFilteredChars(i, chars) ==
  LET kept == {filteredChars[j] : j \in Instances \ {i}}
      ref == Min(Refs \ kept)
  IN  /\ Ready
      /\ handle[i] = "filter"
      /\ Refs \ kept # {}
      /\ filteredChars' = [filteredChars EXCEPT ![i] = ref]
      /\ callerArray' = ref
      /\ returned' = 0
      /\ heap' = Collect([r \in (DOMAIN heap) \cup {ref} |->
                            IF r = ref THEN chars ELSE heap[r]],
                         kept \cup {ref})
      /\ lastOp' = [op |-> "setFilteredChars", this |-> i, chars |-> chars]
      /\ NoDispatch
      /\ UNCHANGED <<handle, eventType, enablePasteFiltering, eventHandler,
                     pasteHandler, listeners, inits, call>>

\* getFilteredChars that hands out this.filteredChars itself
getFilteredCharsSameArray(i) ==
  /\ Ready
  /\ handle[i] = "filter"
  /\ returned' = filteredChars[i]
  /\ lastOp' = [op |-> "getFilteredChars", this |-> i]
  /\ NoDispatch
  /\ UNCHANGED <<handle, filteredChars, eventType, enablePasteFiltering,
                 eventHandler, pasteHandler, heap, callerArray, listeners, inits,
                 call>>

\* filter.getFilteredChars(): a new array holding the same characters
getFilteredChars(i) ==
  LET ref == Min(Refs \ DOMAIN heap)
  IN  /\ Ready
      /\ handle[i] = "filter"
      /\ Refs \ DOMAIN heap # {}
      /\ returned' = ref
      /\ heap' = Collect([r \in (DOMAIN heap) \cup {ref} |->
                            IF r = ref THEN Chars(i) ELSE heap[r]],
                         {filteredChars[j] : j \in Instances}
                           \cup {callerArray, ref})
      /\ lastOp' = [op |-> "getFilteredChars", this |-> i]
      /\ NoDispatch
      /\ UNCHANGED <<handle, filteredChars, eventType, enablePasteFiltering,
                     eventHandler, pasteHandler, callerArray, listeners, inits,
                     call>>

(***************************************************************************)
(* The caller's own writes to the arrays it holds.                         *)
(***************************************************************************)
Mutations ==
  [op : {"push"}, ch : SessionChars, index : {0}]
    \cup [op : {"pop"}, ch : {"-"}, index : {0}]
    \cup [op : {"assign"}, ch : SessionChars, index : 0..MaxChars - 1]

\* arr.push(ch), arr.pop(), arr[index] = ch
Mutate(arr, m) ==
  CASE m.op = "push" -> Append(arr, m.ch)
    [] m.op = "pop" -> SubSeq(arr, 1, Len(arr) - 1)
    [] m.op = "assign" -> [arr EXCEPT ![m.index + 1] = m.ch]

MutationApplies(arr, m) ==
  CASE m.op = "push" -> Len(arr) < MaxChars
    [] m.op = "pop" -> TRUE
    [] m.op = "assign" -> m.index < Len(arr)

\* the caller writes to the array getFilteredChars() returned
MutateReturned(m) ==
  /\ Idle
  /\ returned # 0
  /\ MutationApplies(heap[returned], m)
  /\ heap' = [heap EXCEPT ![returned] = Mutate(@, m)]
  /\ lastOp' = [op |-> "mutateReturned", this |-> "caller"]
  /\ NoDispatch
  /\ UNCHANGED <<handle, filteredChars, eventType, enablePasteFiltering,
                 eventHandler, pasteHandler, callerArray, returned, listeners,
                 inits, call>>

\* the caller writes to the array it passed to the constructor or to
\* setFilteredChars
MutateCallerArray(m) ==
  /\ Ready
  /\ callerArray # 0
  /\ MutationApplies(heap[callerArray], m)
  /\ returned' = 0
  /\ heap' = Collect([heap EXCEPT ![callerArray] = Mutate(@, m)],
                     {filteredChars[j] : j \in Instances} \cup {callerArray})
  /\ lastOp' = [op |-> "mutateCallerArray", this |-> "caller"]
  /\ NoDispatch
  /\ UNCHANGED <<handle, filteredChars, eventType, enablePasteFiltering,
                 eventHandler, pasteHandler, callerArray, listeners, inits, call>>

(***************************************************************************)
(* The exported helpers.                                                   *)
(***************************************************************************)
\* initGlobalInputFilter(options): construct, init(), hand back only the
\* cleanup function
initGlobalInputFilter(i, options) ==
  /\ CanInit
  /\ Construct(i, options, options.filteredChars # {})
  /\ LET s == InitFrom(i, eventType'[i], enablePasteFiltering'[i])
     IN  /\ eventHandler' = s.eventHandler
         /\ pasteHandler' = s.pasteHandler
         /\ listeners' = s.listeners
  /\ handle' = [handle EXCEPT ![i] = "cleanup"]
  /\ inits' = [inits EXCEPT ![i] = 1]
  /\ lastOp' = [op |-> "initGlobalInputFilter", this |-> i]
  /\ NoDispatch
  /\ UNCHANGED call

\* the cleanup function initGlobalInputFilter returned: () => filter.destroy()
cleanup(i) ==
  /\ Ready
  /\ handle[i] = "cleanup"
  /\ LET s == DestroyFrom(i, eventType[i], eventHandler, pasteHandler, listeners)
     IN  /\ eventHandler' = s.eventHandler
         /\ pasteHandler' = s.pasteHandler
         /\ listeners' = s.listeners
  /\ inits' = [inits EXCEPT ![i] = 0]
  /\ lastOp' = [op |-> "cleanup", this |-> i, after |-> inits[i],
                threw |-> DestroyFrom(i, eventType[i], eventHandler, pasteHandler,
                                      listeners).threw]
  /\ UNCHANGED <<heap, returned>>
  /\ NoDispatch
  /\ UNCHANGED <<handle, filteredChars, eventType, enablePasteFiltering,
                 callerArray, call>>

\* createDefaultFilter(): the constructor with its fixed options; the array
\* literal is the filter's alone
createDefaultFilter(i) ==
  NewFilter(i, [filteredChars |-> {<<"@", "#">>}, eventType |-> "keypress",
                enablePasteFiltering |-> "true"], FALSE)

(***************************************************************************)
(* The listeners init() creates.  A listener run takes and returns the     *)
(* target element and the log of effects of the dispatch so far.           *)
(***************************************************************************)
\* this.filterPastedText(text)
filterPastedText(this, text) == RemoveChars(text, Chars(this))

\* this.filteredChars.filter((char) => pastedText.includes(char))
FilteredCharsFound(this, pastedText) ==
  SelectSeq(Chars(this), LAMBDA char : char \in Range(pastedText))

\* inputElement.setRangeText(text, start, end, "end")
setRangeText(el, text, start, end) ==
  [el EXCEPT !.value = SubSeq(el.value, 1, start) \o text
                         \o SubSeq(el.value, end + 1, Len(el.value)),
             !.selectionStart = start + Len(text),
             !.selectionEnd = start + Len(text)]

\* a key listener that does not look at the event's target
eventHandlerRunAnyTarget(this, ev, st) ==
  IF ev.key \in Range(Chars(this))
  THEN [st EXCEPT !.log = @ \o <<[eff |-> "preventDefault", by |-> this],
                                  [eff |-> "alert", by |-> this,
                                   message |-> "alertMessage", of |-> <<ev.key>>]>>]
  ELSE st

\* the key listener of instance this
eventHandlerRun(this, ev, st) ==
  IF this \in st.target.matchedBy /\ ev.key \in Range(Chars(this))
  THEN [st EXCEPT !.log = @ \o <<[eff |-> "preventDefault", by |-> this],
                                  [eff |-> "alert", by |-> this,
                                   message |-> "alertMessage", of |-> <<ev.key>>]>>]
  ELSE st

\* a paste listener that takes over every paste with a payload
pasteHandlerRunAlways(this, ev, st) ==
  IF this \in st.target.matchedBy /\ ev.clipboardData.present
  THEN LET pastedText == ev.clipboardData.text
           filteredText == filterPastedText(this, pastedText)
           el == st.target
           prevented == [eff |-> "preventDefault", by |-> this]
       IN  IF filteredText.threw
           THEN [st EXCEPT !.log = @ \o <<prevented, [eff |-> "throw", by |-> this]>>]
           ELSE [target |->
                   IF el.setRangeText
                   THEN setRangeText(el, filteredText.value,
                                     el.selectionStart, el.selectionEnd)
                   ELSE [el EXCEPT !.value = @ \o filteredText.value],
                 log |-> st.log \o <<prevented,
                   [eff |-> IF el.setRangeText THEN "setRangeText" ELSE "append",
                    by |-> this, text |-> filteredText.value],
                   [eff |-> "dispatchEvent", by |-> this],
                   [eff |-> "alert", by |-> this, message |-> "pasteAlertMessage",
                    of |-> FilteredCharsFound(this, pastedText)]>>]
  ELSE st

\* a paste listener that reads the payload without testing that the event
\* carries one: getData on an absent clipboardData is a TypeError
pasteHandlerRunNoPayloadTest(this, ev, st) ==
  IF this \in st.target.matchedBy
  THEN IF ~ev.clipboardData.present
       THEN [st EXCEPT !.log = @ \o <<[eff |-> "throw", by |-> this]>>]
       ELSE pasteHandlerRunAlways(this, [ev EXCEPT !.clipboardData.present =
              Len(FilteredCharsFound(this, ev.clipboardData.text)) > 0], st)
  ELSE st

\* the paste listener of instance this
pasteHandlerRun(this, ev, st) ==
  IF this \in st.target.matchedBy /\ ev.clipboardData.present
  THEN LET pastedText == ev.clipboardData.text
           found == FilteredCharsFound(this, pastedText)
           filteredText == filterPastedText(this, pastedText)
           el == st.target
           prevented == [eff |-> "preventDefault", by |-> this]
       IN  IF Len(found) > 0
           THEN IF filteredText.threw
                THEN [st EXCEPT !.log = @ \o <<prevented,
                                   [eff |-> "throw", by |-> this]>>]
                ELSE [target |->
                        IF el.setRangeText
                        THEN setRangeText(el, filteredText.value,
                                          el.selectionStart, el.selectionEnd)
                        ELSE [el EXCEPT !.value = @ \o filteredText.value],
                      log |-> st.log \o <<prevented,
                        [eff |-> IF el.setRangeText THEN "setRangeText" ELSE "append",
                         by |-> this, text |-> filteredText.value],
                        [eff |-> "dispatchEvent", by |-> this],
                        [eff |-> "alert", by |-> this,
                         message |-> "pasteAlertMessage", of |-> found]>>]
           ELSE st
  ELSE st

RECURSIVE Dispatch(_, _, _)
\* the document runs, in order, the listeners registered for the event's type
Dispatch(ls, ev, st) ==
  IF ls = <<>> THEN st
  ELSE LET l == Head(ls)
           st1 == IF l.type # ev.type THEN st
                  ELSE IF l.fn = "eventHandler" THEN eventHandlerRun(l.this, ev, st)
                  ELSE pasteHandlerRun(l.this, ev, st)
       IN  Dispatch(Tail(ls), ev, st1)

\* a selection lies inside the value
ElementOk(el) ==
  /\ el.selectionStart <= el.selectionEnd
  /\ el.selectionEnd <= Len(el.value)

\* the elements an event may target: one no selector matches, and inputs that
\* match, with a value, a selection and range insertion or not
Elements(insts) ==
  {NoTarget} \cup
  {el \in [matchedBy : (SUBSET insts) \ {{}},
           value : SeqsUpTo(ValueChars, MaxValue),
           selectionStart : 0..MaxValue, selectionEnd : 0..MaxValue,
           setRangeText : BOOLEAN] : ElementOk(el)}

\* the chars of the setFilteredChars call that came right before, if one did
SetJustBefore ==
  IF lastOp.op = "setFilteredChars"
  THEN {[this |-> lastOp.this, chars |-> lastOp.chars]}
  ELSE {}

\* an event reaches the document and its listeners run to completion
DispatchEvent(ev, el) ==
  /\ Ready
  /\ LET st == Dispatch(listeners, ev, [target |-> el, log |-> <<>>])
     IN  /\ target' = st.target
         /\ log' = st.log
  /\ event' = [ev EXCEPT !.target = el]
  /\ lastOp' = [op |-> "event", this |-> "document", setBefore |-> SetJustBefore]
  /\ UNCHANGED <<heap, returned>>
  /\ UNCHANGED <<handle, filteredChars, eventType, enablePasteFiltering,
                 eventHandler, pasteHandler, callerArray, listeners, inits, call>>

\* the user presses a key
KeyEvent(type, key, el) ==
  DispatchEvent([type |-> type, key |-> key, target |-> el], el)

\* the user pastes; clipboardData may be absent
PasteEvent(clip, el) ==
  DispatchEvent([type |-> "paste", clipboardData |-> clip, target |-> el], el)

\* the array getFilteredChars() returned goes out of the caller's scope
Release ==
  /\ Idle
  /\ returned # 0
  /\ DropReturned
  /\ lastOp' = [op |-> "none", this |-> "none"]
  /\ NoDispatch
  /\ UNCHANGED <<handle, filteredChars, eventType, enablePasteFiltering,
                 eventHandler, pasteHandler, callerArray, listeners, inits, call>>

\* the operation or dispatch is over: its record is dropped and the event
\* loop is free again
Return ==
  /\ returned = 0
  /\ lastOp.op \notin {"none", "setFilteredChars"}
  /\ lastOp' = [op |-> "none", this |-> "none"]
  /\ NoDispatch
  /\ UNCHANGED <<handle, filteredChars, eventType, enablePasteFiltering,
                 eventHandler, pasteHandler, heap, callerArray, returned,
                 listeners, inits, call>>

Clipboards ==
  {[present |-> FALSE, text |-> <<>>]}
    \cup {[present |-> TRUE, text |-> t] : t \in SeqsUpTo(PasteChars, MaxPaste)}

(***************************************************************************)
(* The stand-alone sanitizer calls.                                        *)
(***************************************************************************)
\* filterInput(call.value, call.chars)
CallFilterInput ==
  /\ call.fn = "none"
  /\ call' = [call EXCEPT !.fn = "filterInput",
                          !.out = filterInput(call.value, call.chars)]
  /\ UNCHANGED <<handle, filteredChars, eventType, enablePasteFiltering,
                 eventHandler, pasteHandler, heap, callerArray, returned,
                 listeners, inits, lastOp, event, target, log>>

\* filterInput(filterInput(call.value, call.chars), call.chars): the outer call
\* is made on what the inner call returned; when the inner call throws, the
\* outer call is never made and the expression throws
CallFilterInputAgain ==
  /\ call.fn = "filterInput"
  /\ call' = [call EXCEPT !.fn = "filterInputAgain",
                          !.again = IF call.out.threw THEN call.out
                                    ELSE filterInput(call.out.value, call.chars)]
  /\ UNCHANGED <<handle, filteredChars, eventType, enablePasteFiltering,
                 eventHandler, pasteHandler, heap, callerArray, returned,
                 listeners, inits, lastOp, event, target, log>>

\* this.filterPastedText(call.value) on the instance whose array is call.chars
CallFilterPastedText ==
  /\ call.fn = "none"
  /\ LET r == filterPastedText("A", call.value)
     IN  call' = [call EXCEPT !.fn = "filterPastedText",
                             !.out = [threw |-> r.threw, value |-> r.value,
                                      alerts |-> <<>>]]
  /\ UNCHANGED <<handle, filteredChars, eventType, enablePasteFiltering,
                 eventHandler, pasteHandler, heap, callerArray, returned,
                 listeners, inits, lastOp, event, target, log>>

(***************************************************************************)
(* Specifications.                                                         *)
(***************************************************************************)
\* no instance constructed yet, nothing registered on the document
Init ==
  /\ handle = [i \in Instances |-> "none"]
  /\ filteredChars = [i \in Instances |-> 0]
  /\ eventType = [i \in Instances |-> "undefined"]
  /\ enablePasteFiltering = [i \in Instances |-> FALSE]
  /\ eventHandler = [i \in Instances |-> 0]
  /\ pasteHandler = [i \in Instances |-> 0]
  /\ heap = <<>>
  /\ callerArray = 0
  /\ returned = 0
  /\ listeners = <<>>
  /\ inits = [i \in Instances |-> 0]
  /\ lastOp = [op |-> "none", this |-> "none"]
  /\ event = NoEvent
  /\ target = NoTarget
  /\ log = <<>>
  /\ call = NoCall

\* the instances the session specification operates
Operated == {"A"}

SessionElements == Elements(Operated)
KeyTypes == {"keypress", "keydown"}

New == Ready /\ \E i \in Operated : handle[i] = "none" /\ \E o \in Options : constructor(i, o)
NewDefault == Ready /\ \E i \in Operated : createDefaultFilter(i)
NewInit ==
  Ready /\ \E i \in Operated :
    handle[i] = "none" /\ \E o \in Options : initGlobalInputFilter(i, o)
DoInit == Ready /\ \E i \in Operated : init(i)
DoDestroy == Ready /\ \E i \in Operated : destroy(i)
DoCleanup == Ready /\ \E i \in Operated : cleanup(i)
DoSet ==
  Ready /\ \E i \in Operated :
    handle[i] = "filter" /\ \E a \in SessionArrays : setFilteredChars(i, a)
DoGet == Ready /\ \E i \in Operated : getFilteredChars(i)
WriteReturned == Idle /\ returned # 0 /\ \E m \in Mutations : MutateReturned(m)
WriteCallerArray ==
  Ready /\ callerArray # 0 /\ \E m \in Mutations : MutateCallerArray(m)
Key ==
  Ready /\ \E t \in KeyTypes, k \in SessionChars, el \in SessionElements :
    KeyEvent(t, k, el)
Paste == Ready /\ \E c \in Clipboards, el \in SessionElements : PasteEvent(c, el)

Next ==
  \/ New \/ NewDefault \/ NewInit \/ DoInit \/ DoDestroy \/ DoCleanup
  \/ DoSet \/ DoGet \/ WriteReturned \/ WriteCallerArray \/ Key \/ Paste
  \/ Release \/ Return

Spec == Init /\ [][Next]_vars

\* the sanitizer on its own: instance A constructed with the array chars,
\* and a text to sanitize
InitSanitize ==
  /\ handle = [i \in Instances |-> IF i = "A" THEN "filter" ELSE "none"]
  /\ filteredChars = [i \in Instances |-> IF i = "A" THEN 1 ELSE 0]
  /\ eventType = [i \in Instances |-> IF i = "A" THEN "keypress" ELSE "undefined"]
  /\ enablePasteFiltering = [i \in Instances |-> i = "A"]
  /\ eventHandler = [i \in Instances |-> 0]
  /\ pasteHandler = [i \in Instances |-> 0]
  /\ \E chars \in CharArrays, value \in Texts :
       /\ heap = <<chars>>
       /\ call = [fn |-> "none", value |-> value, chars |-> chars,
                  out |-> [threw |-> FALSE, value |-> <<>>, alerts |-> <<>>],
                  again |-> [threw |-> FALSE, value |-> <<>>, alerts |-> <<>>]]
  /\ callerArray = 1
  /\ returned = 0
  /\ listeners = <<>>
  /\ inits = [i \in Instances |-> 0]
  /\ lastOp = [op |-> "constructor", this |-> "A"]
  /\ event = NoEvent
  /\ target = NoTarget
  /\ log = <<>>

NextSanitize == CallFilterInput \/ CallFilterInputAgain \/ CallFilterPastedText

SpecSanitize == InitSanitize /\ [][NextSanitize]_vars

\* two filters on one document: both instances are operated, with fewer
\* choices of options, arrays, keys, payloads and elements
TwoOptions ==
  [filteredChars : {{}, {<<"#">>}},
   eventType : {"undefined", "keydown"},
   enablePasteFiltering : {"undefined", "false"}]
TwoArrays == {<<"-">>}
TwoKeys == {"#", "-"}
TwoElements ==
  {NoTarget} \cup
  {[matchedBy |-> m, value |-> <<>>, selectionStart |-> 0, selectionEnd |-> 0,
    setRangeText |-> TRUE] : m \in (SUBSET Instances) \ {{}}}
TwoClipboards == {[present |-> TRUE, text |-> <<"#">>]}

NewOfTwo ==
  Ready /\ \E i \in Instances :
    handle[i] = "none" /\ \E o \in TwoOptions : constructor(i, o)
NewInitOfTwo ==
  Ready /\ \E i \in Instances :
    handle[i] = "none" /\ \E o \in TwoOptions : initGlobalInputFilter(i, o)
InitOfTwo == Ready /\ \E i \in Instances : init(i)
DestroyOfTwo == Ready /\ \E i \in Instances : destroy(i)
CleanupOfTwo == Ready /\ \E i \in Instances : cleanup(i)
SetOfTwo ==
  Ready /\ \E i \in Instances :
    handle[i] = "filter" /\ \E a \in TwoArrays : setFilteredChars(i, a)
KeyOfTwo ==
  Ready /\ \E t \in KeyTypes, k \in TwoKeys, el \in TwoElements : KeyEvent(t, k, el)
PasteOfTwo ==
  Ready /\ \E c \in TwoClipboards, el \in TwoElements : PasteEvent(c, el)

NextTwo ==
  \/ NewOfTwo \/ NewInitOfTwo \/ InitOfTwo \/ DestroyOfTwo \/ CleanupOfTwo
  \/ SetOfTwo \/ KeyOfTwo \/ PasteOfTwo \/ Return

SpecTwo == Init /\ [][NextTwo]_vars

(***************************************************************************)
(* Properties.                                                             *)
(***************************************************************************)
\* the text left when every character that is a member of chars is dropped
Retain(text, chars) == SelectSeq(text, LAMBDA c : c \notin Range(chars))

\* the characters regular-expression syntax gives a meaning to, in a pattern
\* or inside a bracketed class
SpecialChars == MetaChars \cup {"-"}

\* C1: for every text and every forbidden array, the sanitize result of
\* filterInput and of filterPastedText is exactly the text's characters that
\* are not forbidden, in their order, so it holds no forbidden character
C1_SanitizeKeepsExactlyAllowed ==
  call.fn # "none" =>
    /\ ~call.out.threw
    /\ Range(call.out.value) \cap Range(call.chars) = {}
    /\ call.out.value = Retain(call.value, call.chars)

\* C2: when the forbidden array holds characters that are special in
\* regular-expression syntax, a character of the text is removed if and only
\* if it is a member of the array, whatever the members and their order
C2_SpecialCharsAreLiteral ==
  (call.fn # "none" /\ Range(call.chars) \cap SpecialChars # {}) =>
    /\ ~call.out.threw
    /\ \A c \in Alphabet :
         Len(SelectSeq(call.out.value, LAMBDA x : x = c)) =
           IF c \in Range(call.chars) THEN 0
           ELSE Len(SelectSeq(call.value, LAMBDA x : x = c))
    /\ Len(call.out.value) = Len(Retain(call.value, call.chars))

\* C3: after any sequence of init() and destroy() calls the document holds at
\* most one key listener and at most one paste listener of an instance
C3_AtMostOneListenerPerKind ==
  \A i \in Instances :
    /\ Cardinality(ListenersOf(i, "eventHandler")) <= 1
    /\ Cardinality(ListenersOf(i, "pasteHandler")) <= 1

\* init() called again on an active session, both listeners registered
C3_Witness ==
  /\ lastOp.op = "init"
  /\ inits["A"] = 2
  /\ Cardinality(ListenersOf("A", "eventHandler")) = 1
  /\ Cardinality(ListenersOf("A", "pasteHandler")) = 1

\* the effects instance i's listeners had in the last dispatch
LogOf(i) == SelectSeq(log, LAMBDA e : e.by = i)

\* C4: right after destroy() or the cleanup function, whatever init() and
\* destroy() calls came before, no listener of the instance is registered, and
\* until the next init() no event is suppressed or notified by it
C4_DestroyLeavesNoListener ==
  \A i \in Instances :
    /\ (lastOp.op \in {"destroy", "cleanup"} /\ lastOp.this = i) =>
         ListenersOf(i, "eventHandler") \cup ListenersOf(i, "pasteHandler") = {}
    /\ inits[i] = 0 =>
         /\ ListenersOf(i, "eventHandler") \cup ListenersOf(i, "pasteHandler") = {}
         /\ LogOf(i) = <<>>

\* destroy() once after init() twice in a row, with paste filtering on
C4_Witness ==
  /\ lastOp.op = "destroy"
  /\ lastOp.after = 2
  /\ enablePasteFiltering[lastOp.this]
  /\ listeners = <<>>

\* the session of instance i is fully inactive
Inactive(i) ==
  /\ eventHandler[i] = 0
  /\ pasteHandler[i] = 0
  /\ ListenersOf(i, "eventHandler") \cup ListenersOf(i, "pasteHandler") = {}

\* the session of instance i is fully active: the key handler set and
\* registered for eventType, the paste handler set and registered exactly when
\* paste filtering is enabled, and nothing else of the instance registered
Active(i) ==
  /\ eventHandler[i] # 0
  /\ \E k \in 1..Len(listeners) :
       /\ listeners[k] = [type |-> eventType[i], id |-> eventHandler[i],
                          this |-> i, fn |-> "eventHandler"]
       /\ ListenersOf(i, "eventHandler") = {k}
  /\ IF enablePasteFiltering[i]
     THEN /\ pasteHandler[i] # 0
          /\ \E k \in 1..Len(listeners) :
               /\ listeners[k] = [type |-> "paste", id |-> pasteHandler[i],
                                  this |-> i, fn |-> "pasteHandler"]
               /\ ListenersOf(i, "pasteHandler") = {k}
     ELSE /\ pasteHandler[i] = 0
          /\ ListenersOf(i, "pasteHandler") = {}

\* C5: between public calls a session is fully inactive or fully active, the
\* handler references are what is registered, and construction alone leaves
\* the session inactive
C5_InactiveOrActive ==
  \A i \in Instances :
    /\ Inactive(i) \/ Active(i)
    /\ (lastOp.op = "constructor" /\ lastOp.this = i) => Inactive(i)

\* an active session without paste filtering: only the key handler
C5_Witness ==
  /\ lastOp.op = "init"
  /\ ~enablePasteFiltering["A"]
  /\ Active("A")
  /\ pasteHandler["A"] = 0

\* C6: while a session is active, a key event of the configured kind on a
\* matching target with a forbidden key is suppressed and notified exactly
\* once, with alertMessage(key); any other key event is neither suppressed nor
\* notified by the instance, and no key event changes the element
C6_ForbiddenKeySuppressedOnce ==
  event.type \in KeyTypes =>
    /\ target = event.target
    /\ \A i \in Instances :
         IF /\ eventHandler[i] # 0
            /\ eventType[i] = event.type
            /\ i \in event.target.matchedBy
            /\ event.key \in Range(Chars(i))
         THEN LogOf(i) = <<[eff |-> "preventDefault", by |-> i],
                           [eff |-> "alert", by |-> i, message |-> "alertMessage",
                            of |-> <<event.key>>]>>
         ELSE LogOf(i) = <<>>

\* a forbidden key typed into a matching element of an active session
C6_Witness ==
  /\ event.type = "keypress"
  /\ eventHandler["A"] # 0
  /\ "A" \in event.target.matchedBy
  /\ event.key \in Range(Chars("A"))
  /\ Len(log) = 2

RECURSIVE Distinct(_)
\* the members of an array, each once, in the order they are first declared
Distinct(s) ==
  IF s = <<>> THEN <<>>
  ELSE LET rest == Distinct(SubSeq(s, 1, Len(s) - 1))
       IN  IF s[Len(s)] \in Range(rest) THEN rest ELSE Append(rest, s[Len(s)])

\* the paste listener of instance i takes the paste: the session is active
\* with paste filtering, the target matches and the payload holds a member of
\* the forbidden array
PasteHit(i) ==
  /\ event.type = "paste"
  /\ pasteHandler[i] # 0
  /\ i \in event.target.matchedBy
  /\ event.clipboardData.present
  /\ Range(event.clipboardData.text) \cap Range(Chars(i)) # {}

\* an array that declares no character twice
NoDuplicates(s) == Cardinality(Range(s)) = Len(s)

\* C7: a paste holding a forbidden character leaves the element's value equal
\* to V[0..s) + sanitize(P) + V[e..), and the paste notification receives the
\* forbidden members that occur in P, each once, in declaration order (stated
\* for an element with range insertion and an array without repeated members)
C7_PasteCommitsSanitized ==
  \A i \in Instances :
    (PasteHit(i) /\ event.target.setRangeText /\ NoDuplicates(Chars(i))) =>
      LET V == event.target.value
          P == event.clipboardData.text
      IN  /\ target.value =
               SubSeq(V, 1, event.target.selectionStart) \o Retain(P, Chars(i))
                 \o SubSeq(V, event.target.selectionEnd + 1, Len(V))
          /\ SelectSeq(LogOf(i), LAMBDA e : e.eff = "alert") =
               <<[eff |-> "alert", by |-> i, message |-> "pasteAlertMessage",
                  of |-> SelectSeq(Distinct(Chars(i)), LAMBDA c : c \in Range(P))]>>

\* C8: a paste whose payload holds no member of the forbidden array is left to
\* the browser: nothing suppressed, dispatched or notified, the element as it was
C8_CleanPasteUntouched ==
  (event.type = "paste" /\ event.clipboardData.present) =>
    /\ \A i \in Instances :
         (handle[i] # "none"
            /\ Range(event.clipboardData.text) \cap Range(Chars(i)) = {})
           => LogOf(i) = <<>>
    /\ log = <<>> => target = event.target

\* a non-empty payload without forbidden characters pasted into a matching
\* element of a session with paste filtering, forbidden array not empty
C8_Witness ==
  /\ event.type = "paste"
  /\ pasteHandler["A"] # 0
  /\ "A" \in event.target.matchedBy
  /\ event.clipboardData.present
  /\ event.clipboardData.text # <<>>
  /\ Chars("A") # <<>>
  /\ Range(event.clipboardData.text) \cap Range(Chars("A")) = {}
  /\ log = <<>>

\* C9: getFilteredChars() returns an array equal element by element to the
\* forbidden array but stored apart, and a write to the returned array leaves
\* every filter's forbidden array as it was
C9_ReturnedArrayIsACopy ==
  /\ [](lastOp.op = "getFilteredChars" =>
          /\ returned # filteredChars[lastOp.this]
          /\ heap[returned] = Chars(lastOp.this))
  /\ [][lastOp'.op = "mutateReturned" =>
          \A i \in Instances :
            handle[i] # "none" =>
              /\ filteredChars'[i] = filteredChars[i]
              /\ heap'[filteredChars[i]] = heap[filteredChars[i]]]_vars

\* the caller has changed the returned array, which now differs from the
\* forbidden array
C9_Witness ==
  /\ lastOp.op = "mutateReturned"
  /\ returned # 0
  /\ heap[returned] # Chars("A")

\* C10: setFilteredChars(F) on an active session takes effect at once: the
\* array is F, and the very next key or paste event is decided against F, in
\* the membership test and in the removal pattern
C10_SetTakesEffectOnNextEvent ==
  /\ lastOp.op = "setFilteredChars" => Chars(lastOp.this) = lastOp.chars
  /\ (lastOp.op = "event" /\ lastOp.setBefore # {}) =>
       LET set == CHOOSE x \in lastOp.setBefore : TRUE
           i == set.this
           F == set.chars
           el == event.target
       IN  IF event.type = "paste"
           THEN LET P == event.clipboardData.text
                    hit == /\ pasteHandler[i] # 0
                           /\ i \in el.matchedBy
                           /\ event.clipboardData.present
                           /\ Range(P) \cap Range(F) # {}
                    r == RemoveChars(P, F)
                IN  /\ LogOf(i) # <<>> <=> hit
                    /\ hit =>
                         IF r.threw
                         THEN /\ LogOf(i)[Len(LogOf(i))].eff = "throw"
                              /\ target = el
                         ELSE /\ LogOf(i)[Len(LogOf(i))].of =
                                   SelectSeq(F, LAMBDA c : c \in Range(P))
                              /\ target.value =
                                   IF el.setRangeText
                                   THEN SubSeq(el.value, 1, el.selectionStart)
                                          \o r.value
                                          \o SubSeq(el.value, el.selectionEnd + 1,
                                                    Len(el.value))
                                   ELSE el.value \o r.value
           ELSE LogOf(i) # <<>> <=>
                  /\ eventHandler[i] # 0
                  /\ eventType[i] = event.type
                  /\ i \in el.matchedBy
                  /\ event.key \in Range(F)

\* a paste right after setFilteredChars on an active session, filtered
\* against an array the session was not initialised with
C10_Witness ==
  /\ lastOp.op = "event"
  /\ lastOp.setBefore # {}
  /\ event.type = "paste"
  /\ pasteHandler["A"] # 0
  /\ Len(log) = 4
  /\ Chars("A") # <<"@", "#">>

\* C11: sanitize is idempotent: for every text and every forbidden array,
\* filterInput applied to its own result returns that result again, removing
\* nothing further
C11_SanitizeIdempotent ==
  call.fn = "filterInputAgain" =>
    /\ ~call.out.threw
    /\ ~call.again.threw
    /\ call.again.value = call.out.value

\* C12: destroy() and the cleanup function are safe in every state and
\* idempotent: they raise no error and leave the session inactive, and on a
\* session that is already inactive (never initialised, or destroyed before)
\* they change no handler reference and no listener of the document, so that
\* two or more calls in a row leave what one call leaves
C12_DestroyIdempotent ==
  [][\A i \in Instances :
       (lastOp'.op \in {"destroy", "cleanup"} /\ lastOp'.this = i) =>
         /\ ~lastOp'.threw
         /\ Inactive(i)'
         /\ Inactive(i) =>
              /\ eventHandler' = eventHandler
              /\ pasteHandler' = pasteHandler
              /\ listeners' = listeners
              /\ filteredChars' = filteredChars
              /\ heap' = heap]_vars

\* the cleanup function called again right after it destroyed the session
C12_Witness ==
  /\ lastOp.op = "cleanup"
  /\ lastOp.after = 0
  /\ ~lastOp.threw
  /\ Inactive(lastOp.this)

\* C14: a paste event that carries no clipboard payload, or an empty plain
\* text, is a no-op on a matching element as on any other: nothing is
\* suppressed, inserted, dispatched or notified, no error is raised and the
\* element is as it was
C14_NoPayloadIsNoOp ==
  (event.type = "paste"
     /\ (~event.clipboardData.present \/ event.clipboardData.text = <<>>)) =>
    /\ log = <<>>
    /\ target = event.target

\* a paste without clipboardData on a matching element of a session with
\* paste filtering and a forbidden array that is not empty
C14_Witness ==
  /\ event.type = "paste"
  /\ ~event.clipboardData.present
  /\ pasteHandler["A"] # 0
  /\ ListenersOf("A", "pasteHandler") # {}
  /\ "A" \in event.target.matchedBy
  /\ Chars("A") # <<>>
  /\ log = <<>>

\* C13: filterInput surfaces a notification if and only if its result is
\* shorter than its input; the notification lists the forbidden array joined
\* by " and "; without a notification the input is returned unchanged
C13_NotifiesIffShorter ==
  call.fn \in {"filterInput", "filterInputAgain"} =>
    /\ ~call.out.threw
    /\ call.out.alerts # <<>> <=> Len(call.out.value) < Len(call.value)
    /\ call.out.alerts # <<>> =>
         call.out.alerts = <<[joined |-> call.chars, separator |-> " and "]>>
    /\ call.out.alerts = <<>> => call.out.value = call.value

\* the kinds of the effects instance i's listeners had, in order
EffectsOf(i) == [k \in 1..Len(LogOf(i)) |-> LogOf(i)[k].eff]

\* C15: in every filtered paste (the payload holds a forbidden character, the
\* target matches) the listener's effects are, in this order and each once:
\* the default paste suppressed, the value updated with the sanitized text
\* (by range insertion, or appended where range insertion is unsupported),
\* one synthetic input event dispatched, one paste notification surfaced
C15_PasteEffectsInOrder ==
  \A i \in Instances :
    PasteHit(i) =>
      /\ EffectsOf(i) =
           <<"preventDefault",
             IF event.target.setRangeText THEN "setRangeText" ELSE "append",
             "dispatchEvent", "alert">>
      /\ LogOf(i)[4].message = "pasteAlertMessage"
      /\ target.value =
           IF event.target.setRangeText
           THEN SubSeq(event.target.value, 1, event.target.selectionStart)
                  \o LogOf(i)[2].text
                  \o SubSeq(event.target.value, event.target.selectionEnd + 1,
                            Len(event.target.value))
           ELSE event.target.value \o LogOf(i)[2].text

\* C17: a write of the caller to the array it passed to the constructor or to
\* setFilteredChars changes no filter's forbidden array, hence neither what
\* getFilteredChars() returns nor what later key and paste events reject
C17_CallerWritesDoNotReachFilter ==
  [][lastOp'.op = "mutateCallerArray" =>
       \A i \in Instances : handle[i] # "none" => Chars(i)' = Chars(i)]_vars

\* C18: in the paste listener detection and removal agree: a paste with a
\* payload P on a matching element is suppressed if and only if
\* filterPastedText(P) differs from P, and the characters removed from P are
\* exactly the characters of the found list given to pasteAlertMessage
C18_DetectionAgreesWithRemoval ==
  \A i \in Instances :
    (/\ event.type = "paste"
     /\ pasteHandler[i] # 0
     /\ i \in event.target.matchedBy
     /\ event.clipboardData.present) =>
      LET P == event.clipboardData.text
          r == filterPastedText(i, P)
          suppressed == "preventDefault" \in Range(EffectsOf(i))
      IN  /\ suppressed <=> (~r.threw /\ r.value # P)
          /\ suppressed =>
               /\ Len(LogOf(i)) = 4
               /\ Range(P) \ Range(LogOf(i)[2].text) = Range(LogOf(i)[4].of)

\* the listeners of instance j on the document, in order
OwnListeners(ls, j) == SelectSeq(ls, LAMBDA l : l.this = j)

\* C16: an instance registers and deregisters only its own listeners: a
\* constructor, init(), destroy(), setFilteredChars() or cleanup call on one
\* instance leaves every other instance's registered listeners, handler
\* references and forbidden array as they were, and an instance that is
\* active keeps filtering keys whatever was called on the other
C16_OnlyOwnListeners ==
  /\ [](event.type \in KeyTypes =>
          \A j \in Instances :
            (/\ inits[j] > 0
             /\ eventType[j] = event.type
             /\ j \in event.target.matchedBy
             /\ event.key \in Range(Chars(j))) =>
              EffectsOf(j) = <<"preventDefault", "alert">>)
  /\ [][\A i \in Instances :
          (lastOp'.this = i /\ lastOp'.op # "event") =>
            \A j \in Instances \ {i} :
              /\ eventHandler'[j] = eventHandler[j]
              /\ pasteHandler'[j] = pasteHandler[j]
              /\ OwnListeners(listeners', j) = OwnListeners(listeners, j)
              /\ filteredChars'[j] = filteredChars[j]
              /\ handle[j] # "none" => Chars(j)' = Chars(j)]_vars

\* A.destroy() on an active A while B is active: B's listeners are the only
\* ones left on the document
C16_Witness ==
  /\ lastOp.op = "destroy"
  /\ lastOp.this = "A"
  /\ lastOp.after > 0
  /\ Active("B")
  /\ listeners = OwnListeners(listeners, "B")
  /\ listeners # <<>>

====
